---- MODULE Spec2Model ----
(***************************************************************************)
(* Model of the Apiritif scenario compiler (ApiritifScriptBuilder), of the *)
(* test-runner supervisors (ApiritifExecutor, MochaTester) and of the      *)
(* parts of the apiritif runtime the generated programs call.              *)
(*                                                                         *)
(* Text is modelled as sequences of one-character strings, a dict as a     *)
(* function from keys to values, Python's None as the string "None".       *)
(***************************************************************************)
EXTENDS Integers, Sequences, FiniteSets, TLC

VARIABLES
    \* ---- supervisor (ApiritifExecutor / MochaTester) ----
    executor,        \* which supervisor object is driven: "apiritif" | "mocha"
    scenario,        \* the scenario get_scenario() returns
    load,            \* the load get_load() returns: [iterations, hold]
    prepared,        \* "no" | "ok" | "TaurusConfigError" | "AttributeError"
    script,          \* self.script
    saved,           \* the generated program was written by test_gen.save
    stdout_path,     \* self.stdout_path
    stderr_path,     \* self.stderr_path
    report_path,     \* self.report_path
    stdout_file,     \* self.stdout_file: "None" | "open" | "closed"
    stderr_file,     \* self.stderr_file: "None" | "open" | "closed"
    process,         \* self.process: "None" | "running" | "exited"
    ret_code,        \* what process.poll() returns once the process has exited
    stderr_content,  \* the text the worker wrote to the standard-error sink
    cmdline,         \* the command line handed to execute()
    started,         \* startup() / run_tests() has been called
    everRunning,     \* history: the process was launched (state Running reached)
    is_failed,       \* MochaTester.is_failed
    result,          \* the last call and how it ended
    \* ---- compiler: one request (_add_url_request) ----
    creq,            \* the request being compiled
    cheaders,        \* the scenario-level headers
    runs,            \* the results of the compile passes made so far
    \* ---- compiler: the loop of build_source_code ----
    breqs,           \* the requests of the scenario being looped over
    bstart,          \* the enumerate() index of breqs[1]
    bpos,            \* how many entries of breqs the loop has consumed
    methods,         \* the test methods emitted so far: [name, req]
    \* ---- compiler and runtime: the setUp method ----
    sopts,           \* the scenario's keepalive, default-address, path-prefix
    setup,           \* the statements of the generated setUp method
    tcase,           \* the test case object once setUp has run
    \* ---- compiler and runtime: one structured-query assertion ----
    jassert,         \* the assert-jsonpath entry of the scenario
    jmatches,        \* the values the query finds in the response
    jstmt,           \* the statements the entry was lowered to
    joutcome         \* how running the statement ended

supVars == <<executor, scenario, load, prepared, script, saved, stdout_path,
             stderr_path, report_path, stdout_file, stderr_file, process,
             ret_code, stderr_content, cmdline, started, everRunning,
             is_failed, result>>
reqVars == <<creq, cheaders, runs>>
loopVars == <<breqs, bstart, bpos, methods>>
progVars == <<sopts, setup, tcase, jassert, jmatches, jstmt, joutcome>>
vars == <<supVars, reqVars, loopVars, progVars>>

None == "None"

(***************************************************************************)
(* Text helpers                                                            *)
(***************************************************************************)
\* the sequences over S of length at most n
SeqsUpTo(S, n) == UNION {[1..k -> S] : k \in 0..n}

\* n copies of x
Rep(x, n) == [i \in 1..n |-> x]

\* needle in hay, Python's  needle in hay  on str
Contains(hay, needle) ==
    \E i \in 1..(Len(hay) - Len(needle) + 1) :
        SubSeq(hay, i, i + Len(needle) - 1) = needle

Whitespace == {" ", "\n"}

\* str.strip(): leading and trailing whitespace removed
RECURSIVE LStrip(_)
LStrip(s) ==
    IF s # <<>> /\ Head(s) \in Whitespace THEN LStrip(Tail(s)) ELSE s

RECURSIVE RStrip(_)
RStrip(s) ==
    IF s # <<>> /\ s[Len(s)] \in Whitespace
    THEN RStrip(SubSeq(s, 1, Len(s) - 1)) ELSE s

Strip(s) == RStrip(LStrip(s))

DigitChar == <<"0", "1", "2", "3", "4", "5", "6", "7", "8", "9">>

\* the decimal digits of n >= 0
RECURSIVE Digits(_)
Digits(n) ==
    IF n < 10 THEN <<DigitChar[n + 1]>>
    ELSE Digits(n \div 10) \o <<DigitChar[(n % 10) + 1]>>

\* str(n) of an int
Str(n) == IF n < 0 THEN <<"-">> \o Digits(0 - n) ELSE Digits(n)

(***************************************************************************)
(* Scenario compiler: ApiritifScriptBuilder                                *)
(***************************************************************************)
HeaderKeys == {"Content-Type", "content-type", "X-A"}
HeaderValues == {"application/json", "text/plain"}

\* str.lower() on the header keys of the model
Lower(key) ==
    CASE key = "Content-Type" -> "content-type"
      [] key = "content-type" -> "content-type"
      [] key = "X-A" -> "x-a"
      [] OTHER -> key

\* the dicts with keys in HeaderKeys; the empty dict stands for a missing
\* 'headers' entry too (both are falsy where the code tests them)
HeaderDicts == UNION {[K -> HeaderValues] : K \in SUBSET HeaderKeys}

\* dict.update: a.update(b)
Update(a, b) ==
    [k \in (DOMAIN a) \cup (DOMAIN b) |-> IF k \in DOMAIN b THEN b[k] ELSE a[k]]

\* headers = {}; headers.update(scenario_headers); headers.update(request.headers)
MergeHeaders(scenario_headers, request_headers) ==
    Update(Update(<<>>, scenario_headers), request_headers)

\* merged_headers.get('content-type', None), merged_headers being built by
\* dict([(key.lower(), value) ...]): for keys that differ only in case the
\* entry kept is the last one in the dict's iteration order, which the
\* language does not fix (hash order), so each such value is possible
ContentTypeChoices(headers) ==
    LET ks == {k \in DOMAIN headers : Lower(k) = "content-type"}
    IN  IF ks = {} THEN {None} ELSE {headers[k] : k \in ks}

\* request.method.lower()
MethodLower(m) ==
    CASE m = "GET" -> "get"
      [] m = "POST" -> "post"
      [] OTHER -> m

\* A body is [t, v]: its Python type and its value as a sequence of items
\* ("NoneType": <<>>; str: its characters; dict: its items; list: its
\* members; int, bool: its one literal)
IsDict(b) == b.t = "dict"
IsList(b) == b.t = "list"
IsString(b) == b.t = "str"

\* bool(request.body)
Truthy(b) ==
    CASE b.t = "NoneType" -> FALSE
      [] b.t = "int" -> b.v # <<"0">>
      [] b.t = "bool" -> b.v = <<"True">>
      [] OTHER -> b.v # <<>>

NoPayload == [kind |-> "absent", value |-> <<>>]

\* the if/elif chain on request.body: the named argument chosen, or the error
ClassifyBody(method, content_type, body) ==
    IF content_type = "application/json" /\ (IsDict(body) \/ IsList(body))
    THEN IF IsDict(body)
         THEN [status |-> "ok", payload |-> [kind |-> "json", value |-> body.v]]
         \* iteritems(list): a list has no items()
         ELSE [status |-> "AttributeError", payload |-> NoPayload]
    ELSE IF method = "get" /\ IsDict(body)
    THEN [status |-> "ok", payload |-> [kind |-> "params", value |-> body.v]]
    ELSE IF IsDict(body)
    THEN [status |-> "ok", payload |-> [kind |-> "form", value |-> body.v]]
    ELSE IF IsString(body)
    THEN [status |-> "ok", payload |-> [kind |-> "raw", value |-> body.v]]
    ELSE IF Truthy(body)
    THEN [status |-> "TaurusConfigError", payload |-> NoPayload]
    ELSE [status |-> "ok", payload |-> NoPayload]

\* a generated statement: the function called, its first argument and, for
\* the structured-query verbs, the text given as expected_value
Stmt(verb, arg, expected) == [verb |-> verb, arg |-> arg, expected |-> expected]

\* An entry of 'assert' is [shape, contains, subject, regexp, not]: shape
\* "scalar" is a bare string (kept as the one item of contains), "dict" a
\* mapping; contains is [shape, items], a scalar being kept as its one
\* item; a key that is not given is "unset".
\* ensure_is_dict(assertions, idx, "contains") and the wrapping of a scalar
\* 'contains' into a list, both done in place
NormalizeAssertion(a) ==
    [a EXCEPT !.shape = "dict", !.contains = [shape |-> "list", items |-> @.items]]

\* the members looped over once 'contains' is a list
Members(a) ==
    IF a.contains.shape = "list" THEN a.contains.items
    ELSE <<a.contains.items[1]>>

\* dict.get(key, default) on a flag given as "True", "False" or "unset"
FlagOr(value, default) == IF value = "unset" THEN default ELSE value = "True"

\* a func_table whose two regular-expression verbs for the body are exchanged
FuncTableSwapped(subject, regexp, negate) ==
    CASE subject = "body" /\ ~regexp /\ ~negate -> "assertInBody"
      [] subject = "body" /\ ~regexp /\ negate -> "assertNotInBody"
      [] subject = "body" /\ regexp /\ ~negate -> "assertRegexNotInBody"
      [] subject = "body" /\ regexp /\ negate -> "assertRegexInBody"
      [] subject = "headers" /\ ~regexp /\ ~negate -> "assertInHeaders"
      [] subject = "headers" /\ ~regexp /\ negate -> "assertNotInHeaders"
      [] subject = "headers" /\ regexp /\ ~negate -> "assertRegexInHeaders"
      [] subject = "headers" /\ regexp /\ negate -> "assertRegexNotInHeaders"

\* func_table of _add_assertions
FuncTable(subject, regexp, negate) ==
    CASE subject = "body" /\ ~regexp /\ ~negate -> "assertInBody"
      [] subject = "body" /\ ~regexp /\ negate -> "assertNotInBody"
      [] subject = "body" /\ regexp /\ ~negate -> "assertRegexInBody"
      [] subject = "body" /\ regexp /\ negate -> "assertRegexNotInBody"
      [] subject = "headers" /\ ~regexp /\ ~negate -> "assertInHeaders"
      [] subject = "headers" /\ ~regexp /\ negate -> "assertNotInHeaders"
      [] subject = "headers" /\ regexp /\ ~negate -> "assertRegexInHeaders"
      [] subject = "headers" /\ regexp /\ negate -> "assertRegexNotInHeaders"

\* the statements of one entry of 'assert'
AssertionStmts(a) ==
    LET subject == IF a.subject = "unset" THEN "body" ELSE a.subject
        members == Members(a)
        negate == FlagOr(a.not, FALSE)
    IN  IF subject \in {"body", "headers"}
        THEN [k \in 1..Len(members) |->
                 Stmt(FuncTable(subject, FlagOr(a.regexp, TRUE), negate),
                      members[k], "")]
        ELSE IF subject = "http-code"
        THEN [k \in 1..Len(members) |->
                 Stmt(IF ~negate THEN "assertStatusCode" ELSE "assertNotStatusCode",
                      members[k], "")]
        ELSE <<>>

\* _add_assertions: the statements of the entries, in their order
RECURSIVE PlainStmts(_)
PlainStmts(assertions) ==
    IF assertions = <<>> THEN <<>>
    ELSE AssertionStmts(Head(assertions)) \o PlainStmts(Tail(assertions))

\* the values whose truth value is False, as Python literals
FalsyLiterals == {"''", "0", "False"}

\* expected = assertion.get('expected-value', '') or None, then
\* repr(expected) if expected else None
JsonExpected(a) ==
    IF a.expected = "unset" \/ a.expected \in FalsyLiterals THEN None
    ELSE a.expected

\* _add_jsonpath_assertions: one statement per assertion; a missing
\* 'jsonpath' key raises the TaurusConfigError given as the default
JsonpathStmts(assertions) ==
    [i \in 1..Len(assertions) |->
        Stmt(IF assertions[i].invert THEN "assertNotJSONPath" ELSE "assertJSONPath",
             assertions[i].query, JsonExpected(assertions[i]))]

\* _add_xpath_assertions
XpathStmts(assertions) ==
    [i \in 1..Len(assertions) |->
        Stmt(IF assertions[i].invert THEN "assertNotXPath" ELSE "assertXPath",
             assertions[i].query, "")]

\* a setUp that assigns default_address and path_prefix whatever they are
GenSetupMethodAlways(options) ==
    LET keepalive == IF options.keepalive \in {"unset", None} THEN "True"
                     ELSE options.keepalive
        address == IF options.default_address = "unset" THEN None
                   ELSE options.default_address
        prefix == IF options.path_prefix = "unset" THEN None
                  ELSE options.path_prefix
    IN  <<[target |-> "super.setUp", value |-> ""],
          [target |-> "keep_alive", value |-> keepalive],
          [target |-> "default_address", value |-> address],
          [target |-> "path_prefix", value |-> prefix]>>

\* gen_setup_method: the statements of setUp as [target, value], an
\* option being a Python literal, or "unset" when the scenario has no such key
GenSetupMethod(options) ==
    LET keepalive == IF options.keepalive \in {"unset", None} THEN "True"
                     ELSE options.keepalive
        address == IF options.default_address = "unset" THEN None
                   ELSE options.default_address
        prefix == IF options.path_prefix = "unset" THEN None
                  ELSE options.path_prefix
    IN  <<[target |-> "super.setUp", value |-> ""],
          [target |-> "keep_alive", value |-> keepalive]>>
        \o (IF address # None
            THEN <<[target |-> "default_address", value |-> address]>> ELSE <<>>)
        \o (IF prefix # None
            THEN <<[target |-> "path_prefix", value |-> prefix]>> ELSE <<>>)

\* the test case after one statement of the generated setUp;
\* super.setUp is APITestCase.setUp
ExecSetupStmt(case, st) ==
    CASE st.target = "super.setUp" ->
            [case EXCEPT !.keep_alive = "True", !.default_address = None,
                         !.path_prefix = None]
      [] st.target = "keep_alive" -> [case EXCEPT !.keep_alive = st.value]
      [] st.target = "default_address" -> [case EXCEPT !.default_address = st.value]
      [] st.target = "path_prefix" -> [case EXCEPT !.path_prefix = st.value]

\* ==, on the Python literals of the model: 0 == False
PyEq(a, b) == a = b \/ {a, b} = {"0", "False"}

\* APITestCase.assertJSONPath, given the expected_value text of the call
\* and the values the query finds
AssertJSONPath(expected_value, matches) ==
    IF matches = <<>> THEN "AssertionError"
    ELSE IF expected_value # None /\ ~PyEq(matches[1], expected_value)
    THEN "AssertionError"
    ELSE "pass"

\* APITestCase.assertNotJSONPath: with no match, matches[0] is evaluated
\* when expected_value is not None
AssertNotJSONPath(expected_value, matches) ==
    IF matches # <<>> THEN "AssertionError"
    ELSE IF expected_value # None
    THEN "IndexError"
    ELSE "pass"

\* dehumanize_time on the think-time options of the model, as the text the
\* number is printed with; no option gives 0
Dehumanize(option) ==
    CASE option = "unset" -> "0"
      [] option = "0s" -> "0"
      [] option = "5s" -> "5"

MissingQuery(assertions) == \E i \in 1..Len(assertions) : assertions[i].query = None

\* the statements of a test method with the markup-query assertions ahead
\* of the structured-query ones
RequestStmtsXpathFirst(method, request) ==
    <<Stmt(method, "url", ""), Stmt("assertOk", "", "")>>
    \o PlainStmts(request.assert)
    \o XpathStmts(request.xpath)
    \o JsonpathStmts(request.jsonpath)
    \o (IF Dehumanize(request.think) # "0"
        THEN <<Stmt("time.sleep", Dehumanize(request.think), "")>>
        ELSE <<>>)

\* the statements of a test method: the request line, assertOk, the three
\* kinds of assertions, and time.sleep under 'if think_time:'
RequestStmts(method, request) ==
    <<Stmt(method, "url", ""), Stmt("assertOk", "", "")>>
    \o PlainStmts(request.assert)
    \o JsonpathStmts(request.jsonpath)
    \o XpathStmts(request.xpath)
    \o (IF Dehumanize(request.think) # "0"
        THEN <<Stmt("time.sleep", Dehumanize(request.think), "")>>
        ELSE <<>>)

\* _add_url_request, content_type being merged_headers.get('content-type')
AddUrlRequest(scenario_headers, request, content_type) ==
    LET method == MethodLower(request.method)
        headers == MergeHeaders(scenario_headers, request.headers)
        cls == ClassifyBody(method, content_type, request.body)
        base == [status |-> cls.status, error |-> <<>>, method |-> method,
                 headers |-> headers, content_type |-> content_type,
                 payload |-> cls.payload, stmts |-> <<>>]
    IN  IF cls.status = "TaurusConfigError"
        THEN [base EXCEPT !.error = <<"Cannot handle 'body' option of type",
                                       request.body.t>> \o request.body.v]
        ELSE IF cls.status # "ok" THEN base
        ELSE IF MissingQuery(request.jsonpath)
        THEN [base EXCEPT !.status = "TaurusConfigError",
                          !.error = <<"JSON Path not found in assertion">>]
        ELSE IF MissingQuery(request.xpath)
        THEN [base EXCEPT !.status = "TaurusConfigError",
                          !.error = <<"XPath not found in assertion">>]
        ELSE [base EXCEPT !.stmts = RequestStmts(method, request)]

\* what a pass of _add_url_request leaves of the request: the entries of
\* 'assert' are normalized in place once the body has been classified
NormalizeRequest(request, content_type) ==
    IF ClassifyBody(MethodLower(request.method), content_type, request.body).status
          = "ok"
    THEN [request EXCEPT
             !.assert = [i \in 1..Len(@) |-> NormalizeAssertion(@[i])]]
    ELSE request

\* the characters [0-9a-zA-Z] that occur in the model's URLs
AlnumChars == {"a", "b", "x", "y", "A", "0", "1", "2", "3", "4", "5", "6",
               "7", "8", "9"}

\* url[:30]
TruncLen == 30
Truncate(url) == SubSeq(url, 1, IF Len(url) < TruncLen THEN Len(url) ELSE TruncLen)

\* re.sub('[^0-9a-zA-Z]+', '_', text): each maximal run of other characters
\* becomes one underscore
RECURSIVE Sanitize(_)
Sanitize(text) ==
    IF text = <<>> THEN <<>>
    ELSE IF Head(text) \in AlnumChars THEN <<Head(text)>> \o Sanitize(Tail(text))
    ELSE IF Len(text) > 1 /\ text[2] \notin AlnumChars THEN Sanitize(Tail(text))
    ELSE <<"_">> \o Sanitize(Tail(text))

\* '%05d' % index: at least five digits, zero-padded on the left
PadWidth == 5
ZeroPad(index) ==
    LET d == Digits(index)
    IN  IF Len(d) >= PadWidth THEN d ELSE Rep("0", PadWidth - Len(d)) \o d

\* the name without the zero padding: 'test_%d_%s'
MethodNameUnpadded(index, url) ==
    <<"t", "e", "s", "t", "_">> \o Digits(index) \o <<"_">>
        \o Sanitize(Truncate(url))

\* 'test_%05d_%s' % (index, mod_label)
MethodName(index, url) ==
    <<"t", "e", "s", "t", "_">> \o ZeroPad(index) \o <<"_">>
        \o Sanitize(Truncate(url))

\* one pass of the loop of build_source_code over the entry at enumerate()
\* index `index`: the methods emitted so far, with the new one appended
\* unless the entry is not an HTTPRequest
LoopBody(emitted, index, req, pos) ==
    IF ~req.http THEN emitted
    ELSE Append(emitted, [name |-> MethodName(index, req.url), pos |-> pos])

\* build_source_code: the loop over the requests from enumerate() index
\* `index` on; the set of the results the build can produce (one per choice
\* of the content-type entry kept), each [status, error, methods]
RECURSIVE BuildFrom(_, _, _, _)
BuildFrom(scenario_headers, reqs, index, emitted) ==
    IF reqs = <<>> THEN {[status |-> "ok", error |-> <<>>, methods |-> emitted]}
    ELSE LET req == Head(reqs)
             next == LoopBody(emitted, index, req, index + 1)
         IN  IF ~req.http
             THEN BuildFrom(scenario_headers, Tail(reqs), index + 1, next)
             ELSE UNION {
                 LET r == AddUrlRequest(scenario_headers, req, ct)
                 IN  IF r.status # "ok"
                     THEN {[status |-> r.status, error |-> r.error,
                            methods |-> emitted]}
                     ELSE BuildFrom(scenario_headers, Tail(reqs), index + 1, next)
                 : ct \in ContentTypeChoices(
                              MergeHeaders(scenario_headers, req.headers))}

BuildSourceCode(scen) == BuildFrom(scen.headers, scen.requests, 0, <<>>)

(***************************************************************************)
(* Inputs of the model                                                     *)
(***************************************************************************)
NoBody == [t |-> "NoneType", v |-> <<>>]
NoHeaders == <<>>

\* a request entry of a scenario
Req(http, url, method, headers, body, jsonpath, xpath) ==
    [http |-> http, url |-> url, method |-> method, headers |-> headers,
     body |-> body, jsonpath |-> jsonpath, xpath |-> xpath,
     assert |-> <<>>, think |-> "unset"]

\* an entry of 'assert-jsonpath' or 'assert-xpath'
QAssert(query, invert, expected) ==
    [query |-> query, invert |-> invert, expected |-> expected]

PlainGet == Req(TRUE, <<"/", "a">>, "GET", NoHeaders, NoBody, <<>>, <<>>)
JsonHeader == [k \in {"Content-Type"} |-> "application/json"]

Scen(has_requests, has_script, requests) ==
    [has_requests |-> has_requests, has_script |-> has_script,
     headers |-> NoHeaders, requests |-> requests]

\* the scenarios the supervisor is run on
ScenarioSamples ==
    { Scen(TRUE, FALSE, <<PlainGet>>),
      Scen(TRUE, TRUE,
           <<[PlainGet EXCEPT !.http = FALSE],
             [PlainGet EXCEPT !.jsonpath = <<QAssert("$.a", TRUE, "unset")>>]>>),
      Scen(TRUE, FALSE, <<[PlainGet EXCEPT !.body = [t |-> "int", v |-> <<"5">>]]>>),
      Scen(TRUE, FALSE,
           <<PlainGet,
             [PlainGet EXCEPT !.jsonpath = <<QAssert(None, FALSE, "unset")>>]>>),
      Scen(TRUE, FALSE,
           <<[PlainGet EXCEPT !.xpath = <<QAssert(None, FALSE, "unset")>>]>>),
      Scen(TRUE, FALSE,
           <<[PlainGet EXCEPT !.method = "POST", !.headers = JsonHeader,
                              !.body = [t |-> "list", v |-> <<"1">>]]>>),
      Scen(FALSE, TRUE, <<>>),
      Scen(FALSE, FALSE, <<>>) }

MaxIterations == 2
MaxHold == 1
MaxExitCode == 2
MaxErrLen == 2

\* what the worker may have written to its standard error
StderrSamples == SeqsUpTo({"b", "\n"}, MaxErrLen)

(***************************************************************************)
(* Test-runner supervisor: ApiritifExecutor, MochaTester                   *)
(***************************************************************************)
Tok(text) == <<text>>

Res(call, outcome, msg, seen, code) ==
    [call |-> call, outcome |-> outcome, msg |-> msg, seen |-> seen, code |-> code]

BuildFailed(scen, out) == scen.has_requests /\ out.status # "ok"

\* prepare() that allocates the sink paths before it builds the program
PrepareEffectSinksFirst(scen, out) ==
    LET sinks == [prepared |-> "ok", script |-> None, saved |-> FALSE,
                  stdout_path |-> "nose.out", stderr_path |-> "nose.err",
                  report_path |-> "report.ldjson"]
    IN  IF scen.has_requests
        THEN IF out.status = "ok"
             THEN [sinks EXCEPT !.script = "test_api.py", !.saved = TRUE]
             ELSE [sinks EXCEPT !.prepared = out.status]
        ELSE IF scen.has_script
        THEN [sinks EXCEPT !.script = "script.py"]
        ELSE [sinks EXCEPT !.prepared = "TaurusConfigError"]

\* ApiritifExecutor.prepare on a scenario whose build ended `out`: the fields
\* it leaves behind. An exception of the build leaves prepare() at once:
\* nothing is saved and no sink path is allocated.
PrepareEffect(scen, out) ==
    LET unset == [prepared |-> "no", script |-> None, saved |-> FALSE,
                  stdout_path |-> None, stderr_path |-> None,
                  report_path |-> None]
        sinks == [unset EXCEPT !.prepared = "ok", !.stdout_path = "nose.out",
                               !.stderr_path = "nose.err",
                               !.report_path = "report.ldjson"]
    IN  IF scen.has_requests
        THEN IF out.status = "ok"
             THEN [sinks EXCEPT !.script = "test_api.py", !.saved = TRUE]
             ELSE [unset EXCEPT !.prepared = out.status]
        ELSE IF scen.has_script
        THEN [sinks EXCEPT !.script = "script.py"]
        ELSE [unset EXCEPT !.prepared = "TaurusConfigError"]

Prepare ==
    /\ executor = "apiritif"
    /\ prepared = "no"
    /\ \E out \in BuildSourceCode(scenario) :
         LET e == PrepareEffect(scenario, out)
         IN  /\ prepared' = e.prepared
             /\ script' = e.script
             /\ saved' = e.saved
             /\ stdout_path' = e.stdout_path
             /\ stderr_path' = e.stderr_path
             /\ report_path' = e.report_path
             /\ result' = Res("prepare", e.prepared,
                              IF BuildFailed(scenario, out) THEN out.error ELSE <<>>,
                              process, ret_code)
    /\ UNCHANGED <<executor, scenario, load, stdout_file, stderr_file, process,
                   ret_code, stderr_content, cmdline, started, everRunning,
                   is_failed, reqVars, loopVars, progVars>>

\* the command line with the duration flag put before the iteration flag
CommandLineSwapped(ld, report, test_program) ==
    <<Tok("python"), Tok("nose_plugin.py"), Tok("--report-file"), Tok(report)>>
        \o (IF ld.hold # 0 THEN <<Tok("-d"), Str(ld.hold)>> ELSE <<>>)
        \o (IF ld.iterations # 0 THEN <<Tok("-i"), Str(ld.iterations)>> ELSE <<>>)
        \o <<Tok(test_program)>>

\* the nose command line of startup()
CommandLine(ld, report, test_program) ==
    <<Tok("python"), Tok("nose_plugin.py"), Tok("--report-file"), Tok(report)>>
        \o (IF ld.iterations # 0 THEN <<Tok("-i"), Str(ld.iterations)>> ELSE <<>>)
        \o (IF ld.hold # 0 THEN <<Tok("-d"), Str(ld.hold)>> ELSE <<>>)
        \o <<Tok(test_program)>>

\* how far startup() gets: open() of a path that is None raises TypeError;
\* either open() or execute() may fail in the environment
StartupOutcomes ==
    IF stdout_path = None THEN {"TypeError"}
    ELSE {"stdout IOError", "stderr IOError", "OSError", "ok"}

\* ApiritifExecutor.startup. The engine calls prepare() and startup() at
\* most once per executor; check() and shutdown() may come at any time,
\* before them too.
Startup ==
    /\ executor = "apiritif"
    /\ ~started
    /\ started' = TRUE
    /\ \E how \in StartupOutcomes :
         /\ stdout_file' = IF how \in {"stderr IOError", "OSError", "ok"}
                           THEN "open" ELSE stdout_file
         /\ stderr_file' = IF how \in {"OSError", "ok"} THEN "open" ELSE stderr_file
         /\ cmdline' = IF how \in {"OSError", "ok"}
                       THEN CommandLine(load, report_path, script) ELSE cmdline
         /\ process' = IF how = "ok" THEN "running" ELSE process
         /\ everRunning' = (everRunning \/ how = "ok")
         /\ result' = Res("startup", how, <<>>, process', ret_code)
    /\ UNCHANGED <<executor, scenario, load, prepared, script, saved, stdout_path,
                   stderr_path, report_path, ret_code, stderr_content, is_failed,
                   reqVars, loopVars, progVars>>

\* the worker process ends by itself, having written its standard error
WorkerExit ==
    /\ process = "running"
    /\ process' = "exited"
    /\ ret_code' \in 0..MaxExitCode
    /\ stderr_content' \in StderrSamples
    /\ UNCHANGED <<executor, scenario, load, prepared, script, saved, stdout_path,
                   stderr_path, report_path, stdout_file, stderr_file, cmdline,
                   started, everRunning, is_failed, result, reqVars, loopVars, progVars>>

\* the failure message without the captured standard error
ToolErrorMessageNoStderr(code, std_err) ==
    <<"Nose", " ", "label", " ", "(", "ApiritifExecutor", ")", " ", "has", " ",
      "failed", " ", "with", " ", "retcode", " ">> \o Str(code)

\* msg % (self.label, self.__class__.__name__, ret_code, std_err.strip())
ToolErrorMessage(code, std_err) ==
    <<"Nose", " ", "label", " ", "(", "ApiritifExecutor", ")", " ", "has", " ",
      "failed", " ", "with", " ", "retcode", " ">>
        \o Str(code) \o <<" ", "\n", " ">> \o Strip(std_err)

\* check() that answers "finished" for every exit code, never raising
CheckOutcomeNoRaise(proc, code, std_err) ==
    IF proc = None THEN [outcome |-> "AttributeError", msg |-> <<>>]
    ELSE IF proc = "exited" THEN [outcome |-> "True", msg |-> <<>>]
    ELSE [outcome |-> "False", msg |-> <<>>]

\* check() that takes a process never launched for one that has finished
CheckOutcomeNoProcess(proc, code, std_err) ==
    IF proc = "running" THEN [outcome |-> "False", msg |-> <<>>]
    ELSE IF proc = "exited" /\ code # 0
    THEN [outcome |-> "ToolError", msg |-> ToolErrorMessage(code, std_err)]
    ELSE [outcome |-> "True", msg |-> <<>>]

\* ApiritifExecutor.check: what the call returns or raises
CheckOutcome(proc, code, std_err) ==
    IF proc = None THEN [outcome |-> "AttributeError", msg |-> <<>>]
    ELSE IF proc = "exited"
    THEN IF code # 0
         THEN [outcome |-> "ToolError", msg |-> ToolErrorMessage(code, std_err)]
         ELSE [outcome |-> "True", msg |-> <<>>]
    ELSE [outcome |-> "False", msg |-> <<>>]

Check ==
    /\ executor = "apiritif"
    /\ LET r == CheckOutcome(process, ret_code, stderr_content)
       IN  result' = Res("check", r.outcome, r.msg, process, ret_code)
    /\ UNCHANGED <<executor, scenario, load, prepared, script, saved, stdout_path,
                   stderr_path, report_path, stdout_file, stderr_file, process,
                   ret_code, stderr_content, cmdline, started, everRunning,
                   is_failed, reqVars, loopVars, progVars>>

\* shutdown_process(self.process, self.log): a live process is sent the
\* termination signal; the attempt may fail with an exception
ShutdownProcessOutcomes(proc) ==
    IF proc = "running" THEN {"terminated", "raised"} ELSE {"nothing to do"}

\* file.close() where the attribute is set
CloseIfSet(file) == IF file = None THEN None ELSE "closed"

\* ApiritifExecutor.shutdown
Shutdown ==
    /\ executor = "apiritif"
    /\ \E how \in ShutdownProcessOutcomes(process) :
         IF how = "raised"
         THEN /\ result' = Res("shutdown", "raised", <<>>, process, ret_code)
              /\ UNCHANGED <<process, ret_code, stderr_content, stdout_file,
                             stderr_file>>
         ELSE /\ IF how = "terminated"
                 THEN /\ process' = "exited"
                      /\ ret_code' = 0 - 15
                      /\ stderr_content' \in StderrSamples
                 ELSE UNCHANGED <<process, ret_code, stderr_content>>
              /\ stdout_file' = CloseIfSet(stdout_file)
              /\ stderr_file' = CloseIfSet(stderr_file)
              /\ result' = Res("shutdown", "ok", <<>>, process', ret_code')
    /\ UNCHANGED <<executor, scenario, load, prepared, script, saved, stdout_path,
                   stderr_path, report_path, cmdline, started, everRunning,
                   is_failed, reqVars, loopVars, progVars>>

\* MochaTester.run_tests: both sinks are opened and the process is launched
RunTests ==
    /\ executor = "mocha"
    /\ ~started
    /\ started' = TRUE
    /\ stdout_file' = "open"
    /\ stderr_file' = "open"
    /\ process' = "running"
    /\ everRunning' = TRUE
    /\ result' = Res("run_tests", "ok", <<>>, process', ret_code)
    /\ UNCHANGED <<executor, scenario, load, prepared, script, saved, stdout_path,
                   stderr_path, report_path, ret_code, stderr_content, cmdline,
                   is_failed, reqVars, loopVars, progVars>>

\* MochaTester.is_finished: what the call returns or raises, and is_failed
IsFinishedOutcome(proc, code, failed) ==
    IF proc = None THEN [outcome |-> "AttributeError", is_failed |-> failed]
    ELSE IF proc = "exited"
    THEN [outcome |-> "True", is_failed |-> (failed \/ code # 0)]
    ELSE [outcome |-> "False", is_failed |-> failed]

IsFinished ==
    /\ executor = "mocha"
    /\ LET r == IsFinishedOutcome(process, ret_code, is_failed)
       IN  /\ result' = Res("is_finished", r.outcome, <<>>, process, ret_code)
           /\ is_failed' = r.is_failed
    /\ UNCHANGED <<executor, scenario, load, prepared, script, saved, stdout_path,
                   stderr_path, report_path, stdout_file, stderr_file, process,
                   ret_code, stderr_content, cmdline, started, everRunning,
                   reqVars, loopVars, progVars>>

NoOptions == [keepalive |-> "unset", default_address |-> "unset",
              path_prefix |-> "unset"]
NoTestCase == [keep_alive |-> "unset", default_address |-> "unset",
               path_prefix |-> "unset", ran |-> 0]

\* the setUp and structured-query variables while they are not the subject
ProgIdle ==
    /\ sopts = NoOptions
    /\ setup = <<>>
    /\ tcase = NoTestCase
    /\ jassert = QAssert("$.a", FALSE, "unset")
    /\ jmatches = <<>>
    /\ jstmt = <<>>
    /\ joutcome = "not run"

\* the compiler variables while the supervisor is the subject
CompilerIdle ==
    /\ creq = PlainGet
    /\ cheaders = NoHeaders
    /\ runs = <<>>
    /\ breqs = <<>>
    /\ bstart = 0
    /\ bpos = 0
    /\ methods = <<>>

\* the supervisor after construction (__init__), on some scenario and load
SupervisorInit ==
    /\ executor \in {"apiritif", "mocha"}
    /\ scenario \in ScenarioSamples
    /\ load \in [iterations : 0..MaxIterations, hold : 0..MaxHold]
    /\ prepared = "no"
    /\ script = None
    /\ saved = FALSE
    /\ stdout_path = None
    /\ stderr_path = None
    /\ report_path = None
    /\ stdout_file = None
    /\ stderr_file = None
    /\ process = None
    /\ ret_code = 0
    /\ stderr_content = <<>>
    /\ cmdline = <<>>
    /\ started = FALSE
    /\ everRunning = FALSE
    /\ is_failed = FALSE
    /\ result = Res("__init__", "ok", <<>>, None, 0)

Init == SupervisorInit /\ CompilerIdle /\ ProgIdle

Next ==
    \/ Prepare
    \/ Startup
    \/ WorkerExit
    \/ Check
    \/ Shutdown
    \/ RunTests
    \/ IsFinished

Spec == Init /\ [][Next]_vars

(***************************************************************************)
(* Claims about the supervisor, checked under Spec                         *)
(***************************************************************************)
Polls == {"check", "is_finished"}
PolledExited == result.call \in Polls /\ result.seen = "exited"

\* C1 (as stated): a poll that finds the worker exited with a non-zero code
\* returns "finished" and records the failure instead of raising; it returns
\* "finished" for code 0 too, and "not finished" only while the worker runs.
C1_PollNeverRaises ==
    /\ PolledExited => result.outcome = "True"
    /\ (result.call \in Polls /\ result.outcome = "False") => result.seen = "running"

\* C1 (amended): MochaTester.is_finished returns True for every exit code
\* and sets is_failed for a non-zero one; ApiritifExecutor.check returns True
\* for exit code 0 only and raises ToolError for a non-zero one; both return
\* False exactly while the process is running.
C1_PollOutcome ==
    /\ (PolledExited /\ result.call = "is_finished") =>
           /\ result.outcome = "True"
           /\ (result.code # 0 => is_failed)
    /\ (PolledExited /\ result.call = "check") =>
           result.outcome = (IF result.code = 0 THEN "True" ELSE "ToolError")
    /\ result.call \in Polls =>
           (result.outcome = "False" <=> result.seen = "running")

C1_Witness ==
    /\ result.call = "check"
    /\ result.seen = "exited"
    /\ result.code = 2
    /\ result.outcome = "ToolError"

\* C2 (as stated): the tool failure of a non-zero exit code c carries a
\* message containing c and the captured standard error e, whatever e is;
\* exit code 0 gives no tool failure.
C2_MessageHasCodeAndStderr ==
    result.outcome = "ToolError" =>
        /\ result.code # 0
        /\ Contains(result.msg, Str(result.code))
        /\ Contains(result.msg, stderr_content)

\* C2 (amended): the message contains c and e with its leading and trailing
\* whitespace removed, and ends with it; exit code 0 gives no tool failure.
C2_MessageHasCodeAndStrippedStderr ==
    /\ result.outcome = "ToolError" =>
        /\ result.code # 0
        /\ Contains(result.msg, Str(result.code))
        /\ \E i \in 1..Len(result.msg) :
              /\ result.msg[i] = "retcode"
              /\ SubSeq(result.msg, i + 2, Len(result.msg))
                    = Str(result.code) \o <<" ", "\n", " ">>
                        \o SubSeq(stderr_content,
                                  Len(stderr_content) - Len(LStrip(stderr_content)) + 1,
                                  Len(RStrip(stderr_content)))
    /\ (PolledExited /\ result.code = 0) => result.outcome = "True"

C2_Witness ==
    /\ result.outcome = "ToolError"
    /\ result.code = 2
    /\ stderr_content = <<"b", "\n">>

\* C3 (as stated): after shutdown(), called in any state, the worker is not
\* alive and both sinks are closed, also when terminating the process fails.
C3_ShutdownReleasesEverything ==
    result.call = "shutdown" =>
        /\ process # "running"
        /\ stdout_file # "open"
        /\ stderr_file # "open"

\* C4: a poll reports a completed outcome (finished, or the tool failure)
\* only if start() launched the process; a poll before start() never does.
C4_CompletedOnlyAfterRunning ==
    (result.call \in Polls /\ result.outcome \in {"True", "ToolError"}) =>
        (started /\ everRunning /\ result.seen = "exited")

C4_Witness ==
    /\ result.call = "check"
    /\ ~started
    /\ result.outcome = "AttributeError"

CompilationFailed == prepared \in {"TaurusConfigError", "AttributeError"}

\* the scenario has a configuration error whatever the build's choices
HasConfigError(scen) ==
    IF scen.has_requests
    THEN \A out \in BuildSourceCode(scen) : out.status = "TaurusConfigError"
    ELSE ~scen.has_script

C6_CommandLine ==
    cmdline # <<>> =>
        LET ni == IF load.iterations # 0 THEN 2 ELSE 0
            nd == IF load.hold # 0 THEN 2 ELSE 0
            flags == {k \in 1..Len(cmdline) : cmdline[k] \in {Tok("-i"), Tok("-d")}}
        IN  /\ Len(cmdline) = 5 + ni + nd
            /\ cmdline[1] = Tok("python")
            /\ cmdline[2] = Tok("nose_plugin.py")
            /\ cmdline[3] = Tok("--report-file")
            /\ cmdline[4] = Tok(report_path)
            /\ cmdline[Len(cmdline)] = Tok(script)
            /\ (ni = 2 => cmdline[5] = Tok("-i") /\ cmdline[6] = Str(load.iterations))
            /\ (nd = 2 => cmdline[5 + ni] = Tok("-d")
                          /\ cmdline[6 + ni] = Str(load.hold))
            /\ flags = (IF ni = 2 THEN {5} ELSE {}) \cup (IF nd = 2 THEN {5 + ni} ELSE {})

C6_Witness ==
    /\ process = "running"
    /\ load.iterations = 2
    /\ load.hold = 1
    /\ Len(cmdline) = 9

(***************************************************************************)
(* The compiler on one request: SpecRequest                                *)
(***************************************************************************)
\* the supervisor variables while the compiler is the subject
SupervisorIdle ==
    /\ SupervisorInit
    /\ executor = "apiritif"
    /\ scenario = Scen(TRUE, FALSE, <<PlainGet>>)
    /\ load = [iterations |-> 0, hold |-> 0]

MaxBodyLen == 1
MaxPasses == 2

\* request bodies: None, str, dict, list, and types the compiler does not
\* handle, each with an empty (or zero-like) and a non-empty value
BodySamples ==
    {NoBody}
    \cup {[t |-> ty, v |-> Rep("x", n)] : ty \in {"str", "dict", "list", "tuple"},
                                          n \in 0..MaxBodyLen}
    \cup {[t |-> "int", v |-> <<d>>] : d \in {"0", "5"}}
    \cup {[t |-> "bool", v |-> <<d>>] : d \in {"False", "True"}}

RequestInit ==
    /\ SupervisorIdle
    /\ ProgIdle
    /\ breqs = <<>> /\ bstart = 0 /\ bpos = 0 /\ methods = <<>>
    /\ cheaders \in HeaderDicts
    /\ \E m \in {"GET", "POST"}, h \in HeaderDicts, b \in BodySamples :
          creq = Req(TRUE, <<"/", "a">>, m, h, b, <<>>, <<>>)
    /\ runs = <<>>

\* one compile pass over the request: _add_url_request(creq)
AddRequestPass ==
    /\ Len(runs) < MaxPasses
    /\ \E ct \in ContentTypeChoices(MergeHeaders(cheaders, creq.headers)) :
          /\ runs' = Append(runs, AddUrlRequest(cheaders, creq, ct))
          /\ creq' = NormalizeRequest(creq, ct)
    /\ UNCHANGED <<cheaders, supVars, loopVars, progVars>>

NextRequest == AddRequestPass

SpecRequest == RequestInit /\ [][NextRequest]_vars

\* the body is of a type the compiler supports under content-type ct
Supported(body, ct) ==
    \/ body.t \in {"NoneType", "str", "dict"}
    \/ (ct = "application/json" /\ body.t \in {"dict", "list"})

\* C8 (as stated): every (method, content-type, body) gets exactly one of
\* JSON payload, query parameters, form payload, raw payload, absent, or a
\* configuration error; a body of an unsupported type, whatever its value,
\* gets the configuration error, which names its type and value.
C8_ClassificationTotal ==
    \A i \in 1..Len(runs) :
        LET r == runs[i]
        IN  /\ \/ r.status = "TaurusConfigError"
               \/ r.status = "ok"
                   /\ r.payload.kind \in {"json", "params", "form", "raw", "absent"}
            /\ ~Supported(creq.body, r.content_type) =>
                   /\ r.status = "TaurusConfigError"
                   /\ r.error = <<"Cannot handle 'body' option of type", creq.body.t>>
                                   \o creq.body.v

\* C9 (as stated): a structured body (mapping or sequence) under content-type
\* application/json compiles, for every method, to the JSON payload holding
\* the whole body, never to form data, query parameters or raw data.
C9_StructuredJsonBody ==
    \A i \in 1..Len(runs) :
        (runs[i].content_type = "application/json"
           /\ creq.body.t \in {"dict", "list"}) =>
            /\ runs[i].status = "ok"
            /\ runs[i].payload = [kind |-> "json", value |-> creq.body.v]

\* C10 (as stated): the emitted headers are the scenario's overridden by the
\* request's, keys compared case-sensitively; the content-type is found
\* whatever the case of its key and is determined uniquely by the scenario.
C10_HeaderMerge ==
    /\ \A i \in 1..Len(runs) :
        LET h == runs[i].headers
        IN  /\ DOMAIN h = (DOMAIN cheaders) \cup (DOMAIN creq.headers)
            /\ \A k \in DOMAIN creq.headers : h[k] = creq.headers[k]
            /\ \A k \in (DOMAIN cheaders) \ (DOMAIN creq.headers) : h[k] = cheaders[k]
            /\ (\E k \in DOMAIN h : Lower(k) = "content-type") =>
                   \E k \in DOMAIN h : /\ Lower(k) = "content-type"
                                       /\ runs[i].content_type = h[k]
    /\ \A i, j \in 1..Len(runs) : runs[i].content_type = runs[j].content_type

(***************************************************************************)
(* The loop of build_source_code: SpecLoop                                 *)
(***************************************************************************)
MaxReqs == 3

LongUrl(last) == Rep("a", TruncLen) \o <<last>>

\* URLs: two that sanitize to the same text, two that differ only after the
\* 30th character, and others
UrlSamples ==
    { <<"/", "a", "/", "b">>, <<"/", "a", "?", ":", "b">>, <<"/", "A">>,
      LongUrl("x"), LongUrl("y") }

\* the entries of a scenario: HTTP requests, and a block of another kind
EntrySamples ==
    {[PlainGet EXCEPT !.url = u] : u \in UrlSamples}
    \cup {[PlainGet EXCEPT !.http = FALSE]}

\* The loop is followed over breqs, the entries of the scenario from
\* enumerate() index bstart on (0: the whole scenario; a larger bstart: the
\* tail of a long scenario, whose earlier entries are left out).
LoopInit ==
    /\ SupervisorIdle
    /\ ProgIdle
    /\ creq = PlainGet /\ cheaders = NoHeaders /\ runs = <<>>
    /\ bstart \in {0, 8, 99998}
    /\ breqs \in SeqsUpTo(EntrySamples, MaxReqs)
    /\ bpos = 0
    /\ methods = <<>>

\* one iteration of  for index, req in enumerate(self.scenario.get_requests())
BuildStep ==
    /\ bpos < Len(breqs)
    /\ methods' = LoopBody(methods, bstart + bpos, breqs[bpos + 1], bpos + 1)
    /\ bpos' = bpos + 1
    /\ UNCHANGED <<breqs, bstart, supVars, reqVars, progVars>>

NextLoop == BuildStep

SpecLoop == LoopInit /\ [][NextLoop]_vars

\* ord(c) of the characters of a method name
Ord(c) ==
    CASE c \in {DigitChar[k] : k \in 1..10} ->
             47 + (CHOOSE k \in 1..10 : DigitChar[k] = c)
      [] c = "A" -> 65
      [] c = "_" -> 95
      [] c = "a" -> 97
      [] c = "b" -> 98
      [] c = "e" -> 101
      [] c = "s" -> 115
      [] c = "t" -> 116
      [] c = "x" -> 120
      [] c = "y" -> 121

\* a < b as Python compares str, code point by code point
RECURSIVE LexLess(_, _)
LexLess(a, b) ==
    IF b = <<>> THEN FALSE
    ELSE IF a = <<>> THEN TRUE
    ELSE IF Head(a) # Head(b) THEN Ord(Head(a)) < Ord(Head(b))
    ELSE LexLess(Tail(a), Tail(b))

LoopDone == bpos = Len(breqs)

HttpPositions == {p \in 1..Len(breqs) : breqs[p].http}

\* the methods are one per HTTP entry, in the order of the entries, and
\* their names are pairwise distinct
MethodsMatchRequests ==
    /\ Len(methods) = Cardinality(HttpPositions)
    /\ {methods[i].pos : i \in 1..Len(methods)} = HttpPositions
    /\ \A i, j \in 1..Len(methods) :
          i < j => (methods[i].pos < methods[j].pos
                    /\ methods[i].name # methods[j].name)

NamesSortInRequestOrder ==
    \A i, j \in 1..Len(methods) :
        i < j => LexLess(methods[i].name, methods[j].name)

\* C7 (as stated): N HTTP entries give exactly N test methods in request
\* order, with pairwise distinct names, and sorting the names lexically
\* gives the order of the requests.
C7_MethodsOrderedByName ==
    LoopDone => (MethodsMatchRequests /\ NamesSortInRequestOrder)

\* the zero-padded index has exactly PadWidth digits for every entry
IndexFitsPad ==
    \A p \in 1..Len(breqs) : Len(Digits(bstart + p - 1)) <= PadWidth

\* C7 (amended): as stated, the lexical order of the names being that of the
\* requests provided every index fits the five digits of the padding (the
\* scenario has at most 100000 entries).
C7_MethodsOrderedByNameWithinPad ==
    LoopDone => /\ MethodsMatchRequests
                /\ IndexFitsPad => NamesSortInRequestOrder

C7_Witness ==
    /\ LoopDone
    /\ bstart = 8
    /\ Len(breqs) = 3
    /\ ~breqs[2].http
    /\ Len(methods) = 2
    /\ breqs[1].url # breqs[3].url
    /\ Sanitize(Truncate(breqs[1].url)) = Sanitize(Truncate(breqs[3].url))

-----------------------------------------------------------------------------
\* Third compiler specification: the statements of one test method, for a
\* request with assertions and a think-time.

MaxAsserts == 2

\* the entries of 'assert': a bare string, or a mapping with a scalar or a
\* list under 'contains' and each of subject, regexp and not given or not
AssertEntries ==
    {[shape |-> "scalar", contains |-> [shape |-> "scalar", items |-> <<m>>],
      subject |-> "unset", regexp |-> "unset", not |-> "unset"] : m \in {"a", "b"}}
    \cup {[shape |-> "dict", contains |-> c, subject |-> sb, regexp |-> re,
           not |-> ng] :
            c \in {[shape |-> "scalar", items |-> <<"a">>],
                   [shape |-> "list", items |-> <<"a">>],
                   [shape |-> "list", items |-> <<"a", "b">>],
                   [shape |-> "list", items |-> <<"b", "a">>]},
            sb \in {"unset", "body", "headers", "http-code"},
            re \in {"unset", "True", "False"},
            ng \in {"unset", "True", "False"}}

\* the entries that lists of several assertions are made of
ListEntries ==
    {e \in AssertEntries :
        \/ e.shape = "scalar" /\ e.contains.items = <<"b">>
        \/ /\ e.shape = "dict" /\ e.contains.items = <<"a", "b">>
           /\ <<e.subject, e.regexp, e.not>> \in
                 {<<"headers", "False", "True">>, <<"http-code", "True", "unset">>}}

AssertLists ==
    {<<e>> : e \in AssertEntries} \cup SeqsUpTo(ListEntries, MaxAsserts)

JsonpathLists ==
    {<<>>, <<QAssert("$.a", FALSE, "'v'")>>,
     <<QAssert("$.b", TRUE, "unset"), QAssert("$.a", FALSE, "unset")>>}

XpathLists ==
    {<<>>, <<QAssert("//b", FALSE, "unset"), QAssert("//a", TRUE, "unset")>>}

ThinkSamples == {"unset", "0s", "5s"}

AssertInit ==
    /\ SupervisorIdle
    /\ ProgIdle
    /\ breqs = <<>> /\ bstart = 0 /\ bpos = 0 /\ methods = <<>>
    /\ cheaders = NoHeaders
    /\ \E a \in AssertLists, j \in JsonpathLists, x \in XpathLists, t \in ThinkSamples :
          creq = [Req(TRUE, <<"/", "a">>, "GET", NoHeaders, NoBody, j, x)
                     EXCEPT !.assert = a, !.think = t]
    /\ runs = <<>>

NextAssert == AddRequestPass

SpecAssert == AssertInit /\ [][NextAssert]_vars

\* the rows of the verb-selection table: subject, regex, negate, verb
VerbRows ==
    {<<"body", FALSE, FALSE, "assertInBody">>,
     <<"body", FALSE, TRUE, "assertNotInBody">>,
     <<"body", TRUE, FALSE, "assertRegexInBody">>,
     <<"body", TRUE, TRUE, "assertRegexNotInBody">>,
     <<"headers", FALSE, FALSE, "assertInHeaders">>,
     <<"headers", FALSE, TRUE, "assertNotInHeaders">>,
     <<"headers", TRUE, FALSE, "assertRegexInHeaders">>,
     <<"headers", TRUE, TRUE, "assertRegexNotInHeaders">>}

PlainVerbs == {row[4] : row \in VerbRows} \cup {"assertStatusCode", "assertNotStatusCode"}

\* the verb the table gives an entry, a key that is not given standing for
\* subject body, regex true, negate false
ExpectedVerb(a) ==
    LET subject == IF a.subject = "unset" THEN "body" ELSE a.subject
        regex == a.regexp # "False"
        negate == a.not = "True"
    IN  IF subject = "http-code"
        THEN (IF negate THEN "assertNotStatusCode" ELSE "assertStatusCode")
        ELSE (CHOOSE row \in VerbRows :
                 row[1] = subject /\ row[2] = regex /\ row[3] = negate)[4]

\* the members of all entries, in order
RECURSIVE AllMembers(_)
AllMembers(assertions) ==
    IF assertions = <<>> THEN <<>>
    ELSE Members(Head(assertions)) \o AllMembers(Tail(assertions))

IsPlainStmt(st) == st.verb \in PlainVerbs
IsJsonpathStmt(st) == st.verb \in {"assertJSONPath", "assertNotJSONPath"}
IsXpathStmt(st) == st.verb \in {"assertXPath", "assertNotXPath"}
IsSleepStmt(st) == st.verb = "time.sleep"

\* the passes that produced a test method
OkRuns == {r \in 1..Len(runs) : runs[r].status = "ok"}

\* C11: every entry of 'assert' with subject body or headers gives one call
\* per member of its target list, in list order, with the verb of the
\* verb-selection table for (subject, regex, negate); with subject
\* status-code the verb is assertStatusCode or assertNotStatusCode by negate
\* alone; and no other plain assertion call is emitted.
C11_AssertionLowering ==
    \A r \in OkRuns :
        LET st == runs[r].stmts
            entries == creq.assert
        IN  /\ Len(SelectSeq(st, IsPlainStmt)) = Len(AllMembers(entries))
            /\ Len(st) >= 2 + Len(AllMembers(entries))
            /\ \A i \in 1..Len(entries) :
                  \A k \in 1..Len(Members(entries[i])) :
                     LET at == 2 + Len(AllMembers(SubSeq(entries, 1, i - 1))) + k
                     IN  /\ st[at].verb = ExpectedVerb(entries[i])
                         /\ st[at].arg = Members(entries[i])[k]

\* a method was generated from a negated non-regex headers entry and a
\* status-code entry with the regex flag set, two members each
C11_Witness ==
    /\ Len(runs) > 0 /\ runs[1].status = "ok"
    /\ Len(creq.assert) = 2
    /\ creq.assert[1].subject = "headers" /\ creq.assert[1].regexp = "False"
    /\ creq.assert[1].not = "True"
    /\ creq.assert[2].subject = "http-code" /\ creq.assert[2].regexp = "True"
    /\ [i \in 1..4 |-> runs[1].stmts[2 + i].verb] =
          <<"assertNotInHeaders", "assertNotInHeaders",
            "assertStatusCode", "assertStatusCode">>
    /\ [i \in 1..4 |-> runs[1].stmts[2 + i].arg] = <<"a", "b", "a", "b">>

\* the place of a statement's group in a test method
Rank(st) ==
    CASE IsPlainStmt(st) -> 2
      [] IsJsonpathStmt(st) -> 3
      [] IsXpathStmt(st) -> 4
      [] IsSleepStmt(st) -> 5
      [] st.verb = "assertOk" -> 1
      [] OTHER -> 0

\* the request call, assertOk right after it, then the plain, the
\* structured-query and the markup-query assertions, each group in the
\* scenario's order
GroupsInOrder(st) ==
    /\ Len(st) >= 2
    /\ st[1].verb = MethodLower(creq.method)
    /\ st[2].verb = "assertOk"
    /\ \A i \in 3..Len(st) : Rank(st[i]) >= 2
    /\ \A i \in 1..Len(st) : \A j \in i..Len(st) : Rank(st[i]) <= Rank(st[j])
    /\ LET plain == SelectSeq(st, IsPlainStmt)
       IN  [i \in 1..Len(plain) |-> plain[i].arg] = AllMembers(creq.assert)
    /\ LET json == SelectSeq(st, IsJsonpathStmt)
       IN  [i \in 1..Len(json) |-> json[i].arg] =
              [i \in 1..Len(creq.jsonpath) |-> creq.jsonpath[i].query]
    /\ LET xml == SelectSeq(st, IsXpathStmt)
       IN  [i \in 1..Len(xml) |-> xml[i].arg] =
              [i \in 1..Len(creq.xpath) |-> creq.xpath[i].query]
    /\ Len(SelectSeq(st, IsSleepStmt)) <= 1

\* C12 as stated: the statements of a test method are in the fixed order,
\* and a delay statement with the resolved think-time is the last one if
\* and only if a think-time is set for the request.
C12_OrderAndSleepIffSet ==
    \A r \in OkRuns :
        LET st == runs[r].stmts
        IN  /\ GroupsInOrder(st)
            /\ IsSleepStmt(st[Len(st)]) <=> creq.think # "unset"
            /\ IsSleepStmt(st[Len(st)]) => st[Len(st)].arg = Dehumanize(creq.think)

\* C12, amended: the statements of a test method are in the fixed order,
\* and a delay statement with the resolved think-time is the last one if
\* and only if the resolved think-time is not zero.
C12_OrderAndSleepIffNonZero ==
    \A r \in OkRuns :
        LET st == runs[r].stmts
        IN  /\ GroupsInOrder(st)
            /\ IsSleepStmt(st[Len(st)]) <=> Dehumanize(creq.think) # "0"
            /\ IsSleepStmt(st[Len(st)]) => st[Len(st)].arg = Dehumanize(creq.think)

\* a method with all three kinds of assertions and a delay of 5 at its end
C12_Witness ==
    /\ Len(runs) > 0 /\ runs[1].status = "ok"
    /\ creq.think = "5s"
    /\ LET st == runs[1].stmts
       IN  /\ Len(SelectSeq(st, IsPlainStmt)) >= 2
           /\ Len(SelectSeq(st, IsJsonpathStmt)) = 2
           /\ Len(SelectSeq(st, IsXpathStmt)) = 2
           /\ st[Len(st)] = Stmt("time.sleep", "5", "")

-----------------------------------------------------------------------------
\* Specification of a structured-query assertion: the entry is lowered to a
\* statement, and the statement runs against a response.

MaxMatches == 2

ExpectedSamples == {"unset", "''", "0", "False", "'v'", "'w'", "5"}
MatchValues == {"'v'", "'w'", "0"}

JsonpathInit ==
    /\ SupervisorIdle
    /\ breqs = <<>> /\ bstart = 0 /\ bpos = 0 /\ methods = <<>>
    /\ creq = PlainGet /\ cheaders = NoHeaders /\ runs = <<>>
    /\ sopts = NoOptions /\ setup = <<>> /\ tcase = NoTestCase
    /\ \E q \in {"$.a", "$.b"}, inv \in BOOLEAN, e \in ExpectedSamples :
          jassert = QAssert(q, inv, e)
    /\ jmatches \in SeqsUpTo(MatchValues, MaxMatches)
    /\ jstmt = <<>>
    /\ joutcome = "not run"

\* _add_jsonpath_assertions on the one entry
LowerJsonpath ==
    /\ jstmt = <<>>
    /\ jstmt' = JsonpathStmts(<<jassert>>)
    /\ UNCHANGED <<jassert, jmatches, joutcome, sopts, setup, tcase,
                   supVars, reqVars, loopVars>>

\* the generated statement runs
RunJsonpath ==
    /\ jstmt # <<>>
    /\ joutcome = "not run"
    /\ joutcome' = IF jstmt[1].verb = "assertNotJSONPath"
                   THEN AssertNotJSONPath(jstmt[1].expected, jmatches)
                   ELSE AssertJSONPath(jstmt[1].expected, jmatches)
    /\ UNCHANGED <<jassert, jmatches, jstmt, sopts, setup, tcase,
                   supVars, reqVars, loopVars>>

NextJsonpath == LowerJsonpath \/ RunJsonpath

SpecJsonpath == JsonpathInit /\ [][NextJsonpath]_vars

\* C13: a structured-query assertion lowers to assertNotJSONPath when invert
\* is true and to assertJSONPath otherwise, with the query string; the call
\* carries the expected value whenever one is supplied, and None when none is.
C13_ExpectedValueCarried ==
    jstmt # <<>> =>
        /\ Len(jstmt) = 1
        /\ jstmt[1].verb = (IF jassert.invert THEN "assertNotJSONPath"
                            ELSE "assertJSONPath")
        /\ jstmt[1].arg = jassert.query
        /\ jstmt[1].expected = (IF jassert.expected = "unset" THEN None
                                ELSE jassert.expected)

\* C16: assertNotJSONPath, called with an explicit expected_value, passes or
\* fails with an assertion failure and ends in no other error; when the
\* query matches nothing it passes for every expected value.
C16_NotMatchPassesOrFails ==
    (jstmt # <<>> /\ jstmt[1].verb = "assertNotJSONPath") =>
        /\ joutcome \in {"not run", "pass", "AssertionError"}
        /\ (joutcome # "not run" /\ jmatches = <<>>) => joutcome = "pass"

-----------------------------------------------------------------------------
\* Specification of the setUp method: it is generated from the scenario's
\* options, then its statements run one by one.

OptionSamples ==
    [keepalive : {"unset", None, "True", "False"},
     default_address : {"unset", None, "'http://x'", "''"},
     path_prefix : {"unset", None, "'/api'", "''"}]

SetupInit ==
    /\ SupervisorIdle
    /\ breqs = <<>> /\ bstart = 0 /\ bpos = 0 /\ methods = <<>>
    /\ creq = PlainGet /\ cheaders = NoHeaders /\ runs = <<>>
    /\ jassert = QAssert("$.a", FALSE, "unset") /\ jmatches = <<>>
    /\ jstmt = <<>> /\ joutcome = "not run"
    /\ sopts \in OptionSamples
    /\ setup = <<>>
    /\ tcase = NoTestCase

\* gen_setup_method
GenSetup ==
    /\ setup = <<>>
    /\ setup' = GenSetupMethod(sopts)
    /\ UNCHANGED <<sopts, tcase, jassert, jmatches, jstmt, joutcome,
                   supVars, reqVars, loopVars>>

\* the next statement of the generated setUp runs
SetupStep ==
    /\ tcase.ran < Len(setup)
    /\ tcase' = [ExecSetupStmt(tcase, setup[tcase.ran + 1]) EXCEPT !.ran = @ + 1]
    /\ UNCHANGED <<sopts, setup, jassert, jmatches, jstmt, joutcome,
                   supVars, reqVars, loopVars>>

NextSetup == GenSetup \/ SetupStep

SpecSetup == SetupInit /\ [][NextSetup]_vars

\* the targets the generated setUp assigns
Assigned == {setup[i].target : i \in 1..Len(setup)} \ {"super.setUp"}

\* the option is given in the scenario, and not as null
Configured(option) == option \notin {"unset", None}

\* setUp has run to its end
SetupDone == setup # <<>> /\ tcase.ran = Len(setup)

\* C14 as stated: the setup block has an assignment for keep-alive, default
\* address and path prefix only if that option is configured in the scenario.
C14_AssignedOnlyIfConfigured ==
    /\ "keep_alive" \in Assigned => Configured(sopts.keepalive)
    /\ "default_address" \in Assigned => Configured(sopts.default_address)
    /\ "path_prefix" \in Assigned => Configured(sopts.path_prefix)

\* C14, amended: the setup block calls the runtime's setUp first and always
\* assigns keep-alive (True when the option is not configured); it assigns
\* default address and path prefix exactly when they are configured, each
\* target at most once; after setUp each attribute has the configured value,
\* or the runtime's default (True, None, None) when not configured.
C14_SetupAppliesOptions ==
    /\ setup # <<>> =>
          /\ setup[1].target = "super.setUp"
          /\ Len(setup) = 1 + Cardinality(Assigned)
          /\ "keep_alive" \in Assigned
          /\ "default_address" \in Assigned <=> Configured(sopts.default_address)
          /\ "path_prefix" \in Assigned <=> Configured(sopts.path_prefix)
    /\ SetupDone =>
          /\ tcase.keep_alive = (IF Configured(sopts.keepalive)
                                 THEN sopts.keepalive ELSE "True")
          /\ tcase.default_address = (IF Configured(sopts.default_address)
                                      THEN sopts.default_address ELSE None)
          /\ tcase.path_prefix = (IF Configured(sopts.path_prefix)
                                  THEN sopts.path_prefix ELSE None)

\* setUp has run for a scenario that configures only the path prefix: the
\* block assigned keep_alive and path_prefix
C14_Witness ==
    /\ SetupDone
    /\ sopts = [keepalive |-> "unset", default_address |-> "unset",
                path_prefix |-> "'/api'"]
    /\ Assigned = {"keep_alive", "path_prefix"}
    /\ tcase = [keep_alive |-> "True", default_address |-> None,
                path_prefix |-> "'/api'", ran |-> 3]

-----------------------------------------------------------------------------
\* Specification of repeated compilation: the same request object, with
\* headers at both levels and an entry of 'assert', is compiled again and again.

TwiceInit ==
    /\ SupervisorIdle
    /\ ProgIdle
    /\ breqs = <<>> /\ bstart = 0 /\ bpos = 0 /\ methods = <<>>
    /\ cheaders \in {h \in HeaderDicts : DOMAIN h \subseteq {"Content-Type"}}
    /\ \E h \in {d \in HeaderDicts : DOMAIN d \subseteq {"content-type"}},
          b \in {NoBody, [t |-> "dict", v |-> <<"x">>]},
          a \in {<<>>} \cup {<<e>> : e \in {x \in AssertEntries :
                                               x.regexp = "unset" /\ x.not = "unset"}} :
          creq = [Req(TRUE, <<"/", "a">>, "POST", h, b, <<>>, <<>>) EXCEPT !.assert = a]
    /\ runs = <<>>

NextTwice == AddRequestPass

SpecTwice == TwiceInit /\ [][NextTwice]_vars

\* what a pass writes into the source text: the call with its headers and
\* payload and the statements after it, or the error raised
SourceOf(run) ==
    [status |-> run.status, error |-> run.error, method |-> run.method,
     headers |-> run.headers, payload |-> run.payload, stmts |-> run.stmts]

\* C15: every compilation of the same request object gives the same result,
\* also after a first compilation has normalized the entries of 'assert' in
\* place; an entry and its normalized form compile to the same statements.
C15_CompileTwiceIdentical ==
    /\ \A i, j \in 1..Len(runs) : SourceOf(runs[i]) = SourceOf(runs[j])
    /\ \A i \in 1..Len(creq.assert) :
          AssertionStmts(creq.assert[i]) = AssertionStmts(NormalizeAssertion(creq.assert[i]))

====
